---------------------------- MODULE Spec2Model ----------------------------
(***************************************************************************)
(* Model of src/app.py: the A-Z (Fountas & Pinnell) levelling app.         *)
(*                                                                         *)
(* Strings are sequences of one-character strings.  Floating point values  *)
(* are exact rationals <<num, den>> with den > 0: every quotient the code  *)
(* forms has a denominator of at most MAX_CHARS, so a comparison of two    *)
(* such floats agrees with the comparison of the rationals.                *)
(***************************************************************************)
EXTENDS Integers, Sequences, FiniteSets, TLC

(***************************************************************************)
(* Characters                                                              *)
(***************************************************************************)
NL == "\n"

\* str.isspace() / the regex class \s, restricted to the model's alphabet
IsSpace(c) == c \in {" ", NL, "\t"}

\* the character class [.!?] of SENT_SPLIT
IsTerminal(c) == c \in {".", "!", "?"}

UpperChars ==
  << "A","B","C","D","E","F","G","H","I","J","K","L","M",
     "N","O","P","Q","R","S","T","U","V","W","X","Y","Z","Í","Á" >>

LowerChars ==
  << "a","b","c","d","e","f","g","h","i","j","k","l","m",
     "n","o","p","q","r","s","t","u","v","w","x","y","z","í","á" >>

RangeOf(s) == { s[k] : k \in 1..Len(s) }

IndexOf(s, c) == CHOOSE k \in 1..Len(s) : s[k] = c

UpperSet == RangeOf(UpperChars)

LowerSet == RangeOf(LowerChars)

\* str.lower() and str.upper() on the letters
LowerOf == [ c \in UpperSet |-> LowerChars[IndexOf(UpperChars, c)] ]

UpperOf == [ c \in LowerSet |-> UpperChars[IndexOf(LowerChars, c)] ]

LowerChar(c) == IF c \in UpperSet THEN LowerOf[c] ELSE c

UpperChar(c) == IF c \in LowerSet THEN UpperOf[c] ELSE c

Lower(s) == [ k \in 1..Len(s) |-> LowerChar(s[k]) ]

Upper(s) == [ k \in 1..Len(s) |-> UpperChar(s[k]) ]

\* the character class [A-Za-zÀ-ÖØ-öø-ÿ'] of WORD_RE
WordChars == UpperSet \cup LowerSet \cup {"'"}

IsWordChar(c) == c \in WordChars

IsDigit(c) == c \in {"0","1","2","3","4","5","6","7","8","9"}

Max(a, b) == IF a >= b THEN a ELSE b

Min(a, b) == IF a <= b THEN a ELSE b

\* the program keeps samples of at most 50,000 characters; the model scales
\* the cap down so that texts on both sides of it can be enumerated
MAX_CHARS == 50

(***************************************************************************)
(* safe_text                                                               *)
(***************************************************************************)
RECURSIVE CollapseFrom(_, _, _)
\* re.sub(r"\s+", " ", s): every maximal run of whitespace becomes one space
CollapseFrom(s, k, acc) ==
  IF k > Len(s) THEN acc
  ELSE IF IsSpace(s[k])
       THEN IF k > 1 /\ IsSpace(s[k-1])
            THEN CollapseFrom(s, k + 1, acc)
            ELSE CollapseFrom(s, k + 1, Append(acc, " "))
       ELSE CollapseFrom(s, k + 1, Append(acc, s[k]))

CollapseWs(s) == CollapseFrom(s, 1, << >>)

\* str.strip(): drop leading and trailing whitespace
Strip(s) ==
  LET idx == { k \in 1..Len(s) : ~IsSpace(s[k]) }
  IN IF idx = {} THEN << >>
     ELSE LET lo == CHOOSE k \in idx : \A m \in idx : k <= m
              hi == CHOOSE k \in idx : \A m \in idx : k >= m
          IN SubSeq(s, lo, hi)

\* s[:n]
Take(s, n) == SubSeq(s, 1, Min(Len(s), n))

safe_text(s) == Take(Strip(CollapseWs(s)), MAX_CHARS)

(***************************************************************************)
(* Segmenter: split_sentences and tokenize                                 *)
(***************************************************************************)
RECURSIVE RunEnd(_, _)
\* first index after the run of [.!?] that starts at k
RunEnd(s, k) == IF k <= Len(s) /\ IsTerminal(s[k]) THEN RunEnd(s, k + 1) ELSE k

RECURSIVE SplitFrom(_, _, _, _)
\* re.split(SENT_SPLIT, s) with SENT_SPLIT = [.!?]+[\s\n]: the leftmost match
\* is a maximal run of terminals followed by exactly one whitespace
\* character; a run that is not followed by whitespace matches nowhere
SplitFrom(s, k, start, acc) ==
  IF k > Len(s) THEN Append(acc, SubSeq(s, start, Len(s)))
  ELSE IF IsTerminal(s[k])
       THEN LET j == RunEnd(s, k)
            IN IF j <= Len(s) /\ IsSpace(s[j])
               THEN SplitFrom(s, j + 1, j + 1, Append(acc, SubSeq(s, start, k - 1)))
               ELSE SplitFrom(s, j, start, acc)
       ELSE SplitFrom(s, k + 1, start, acc)

RECURSIVE SplitAnyFrom(_, _, _, _)
SplitAnyFrom(s, k, start, acc) ==
  IF k > Len(s) THEN Append(acc, SubSeq(s, start, Len(s)))
  ELSE IF IsTerminal(s[k])
       THEN LET j == RunEnd(s, k)
            IN IF j <= Len(s)
               THEN SplitAnyFrom(s, j + 1, j + 1, Append(acc, SubSeq(s, start, k - 1)))
               ELSE SplitAnyFrom(s, j, start, acc)
       ELSE SplitAnyFrom(s, k + 1, start, acc)

ReSplit_anychar(s) == SplitAnyFrom(s, 1, 1, << >>)

ReSplit(s) == SplitFrom(s, 1, 1, << >>)

\* [p.strip() for p in parts if p.strip()]
split_sentences(text) ==
  LET parts == ReSplit(text)
  IN SelectSeq([ k \in 1..Len(parts) |-> Strip(parts[k]) ], LAMBDA p : p # << >>)

RECURSIVE WordsFrom(_, _, _, _)
\* WORD_RE.findall(s): the maximal runs of word characters, left to right
WordsFrom(s, k, cur, acc) ==
  IF k > Len(s) THEN (IF cur = << >> THEN acc ELSE Append(acc, cur))
  ELSE IF IsWordChar(s[k])
       THEN WordsFrom(s, k + 1, Append(cur, s[k]), acc)
       ELSE WordsFrom(s, k + 1, << >>, IF cur = << >> THEN acc ELSE Append(acc, cur))

tokenize(text) == WordsFrom(Lower(text), 1, << >>, << >>)

(***************************************************************************)
(* Feature extractor                                                       *)
(***************************************************************************)
ADV_CONNECTIVES ==
  { <<"b","e","c","a","u","s","e">>,
    <<"a","l","t","h","o","u","g","h">>,
    <<"h","o","w","e","v","e","r">>,
    <<"w","h","e","r","e","a","s">>,
    <<"m","o","r","e","o","v","e","r">>,
    <<"n","e","v","e","r","t","h","e","l","e","s","s">>,
    <<"t","h","e","r","e","f","o","r","e">>,
    <<"f","u","r","t","h","e","r","m","o","r","e">>,
    <<"u","n","l","e","s","s">>,
    <<"d","e","s","p","i","t","e">>,
    <<"s","i","n","c","e">>,
    <<"w","h","i","l","e">>,
    <<"w","h","e","n","e","v","e","r">>,
    <<"w","h","e","r","e","v","e","r">>,
    <<"n","o","t","w","i","t","h","s","t","a","n","d","i","n","g">>,
    <<"c","o","n","s","e","q","u","e","n","t","l","y">>,
    <<"a","l","b","e","i","t">>,
    <<"h","e","n","c","e">>,
    <<"n","o","n","e","t","h","e","l","e","s","s">>,
    <<"w","h","e","r","e","b","y">> }

SUB_CONJ ==
  { <<"b","e","c","a","u","s","e">>,
    <<"a","l","t","h","o","u","g","h">>,
    <<"w","h","e","r","e","a","s">>,
    <<"u","n","l","e","s","s">>,
    <<"s","i","n","c","e">>,
    <<"w","h","i","l","e">>,
    <<"w","h","e","n","e","v","e","r">>,
    <<"w","h","e","r","e","v","e","r">>,
    <<"t","h","o","u","g","h">>,
    <<"e","v","e","n">>,
    <<"p","r","o","v","i","d","e","d">>,
    <<"t","h","a","t">>,
    <<"s","o">>,
    <<"i","n">>,
    <<"o","r","d","e","r">>,
    <<"a","f","t","e","r">>,
    <<"b","e","f","o","r","e">>,
    <<"u","n","t","i","l">>,
    <<"o","n","c","e">>,
    <<"a","s">>,
    <<"l","o","n","g">>,
    <<"i","f">> }

RECURSIVE SumSeq(_, _)
SumSeq(s, k) == IF k = 0 THEN 0 ELSE s[k] + SumSeq(s, k - 1)

\* sum(1 for w in tokens if len(w) >= 9)
LongWords(tokens) == Cardinality({ k \in 1..Len(tokens) : Len(tokens[k]) >= 9 })

\* sum(1 for w in tokens if w in words)
CountIn(tokens, words) == Cardinality({ k \in 1..Len(tokens) : tokens[k] \in words })

\* text.count(",")
Commas(text) == Cardinality({ k \in 1..Len(text) : text[k] = "," })

None == [ none |-> TRUE ]

compute_features_notokencheck(text) ==
  LET sents  == split_sentences(text)
      tokens == tokenize(text)
      lens   == [ k \in 1..Len(sents) |-> Len(tokenize(sents[k])) ]
  IN IF sents = << >> THEN None
     ELSE [ avg_sent_len    |-> << SumSeq(lens, Len(lens)), Len(lens) >>,
            ttr             |-> << Cardinality(RangeOf(tokens)), Max(1, Len(tokens)) >>,
            long_word_ratio |-> << LongWords(tokens), Max(1, Len(tokens)) >>,
            connectives     |-> CountIn(tokens, ADV_CONNECTIVES),
            sub_conj        |-> CountIn(tokens, SUB_CONJ),
            commas_per_sent |-> << Commas(text), Max(1, Len(sents)) >>,
            num_sents       |-> Len(sents),
            num_tokens      |-> Len(tokens) ]

\* compute_features: None when there is no token or no sentence; a ratio
\* n/d is kept as the pair <<n, d>>
compute_features(text) ==
  LET sents  == split_sentences(text)
      tokens == tokenize(text)
      lens   == [ k \in 1..Len(sents) |-> Len(tokenize(sents[k])) ]
  IN IF tokens = << >> \/ sents = << >> THEN None
     ELSE [ avg_sent_len    |-> << SumSeq(lens, Len(lens)), Len(lens) >>,
            ttr             |-> << Cardinality(RangeOf(tokens)), Max(1, Len(tokens)) >>,
            long_word_ratio |-> << LongWords(tokens), Max(1, Len(tokens)) >>,
            connectives     |-> CountIn(tokens, ADV_CONNECTIVES),
            sub_conj        |-> CountIn(tokens, SUB_CONJ),
            commas_per_sent |-> << Commas(text), Max(1, Len(sents)) >>,
            num_sents       |-> Len(sents),
            num_tokens      |-> Len(tokens) ]

(***************************************************************************)
(* Exact rationals <<n, d>>, d > 0                                         *)
(***************************************************************************)
RECURSIVE Gcd(_, _)
Gcd(a, b) == IF b = 0 THEN a ELSE Gcd(b, a % b)

Abs(a) == IF a < 0 THEN -a ELSE a

\* lowest terms, so that products stay small
Norm(a) == LET g == Gcd(Abs(a[1]), a[2]) IN << a[1] \div g, a[2] \div g >>

RAdd(a, b) == Norm(<< a[1] * b[2] + b[1] * a[2], a[2] * b[2] >>)

RMul(a, b) == Norm(<< a[1] * b[1], a[2] * b[2] >>)

\* a < b, a <= b
RLt(a, b) == a[1] * b[2] < b[1] * a[2]

RLe(a, b) == a[1] * b[2] <= b[1] * a[2]

\* min(1.0, a)
RMin1(a) == IF RLe(<< 1, 1 >>, a) THEN << 1, 1 >> ELSE a

\* round(a): to the nearest integer, a tie to the even one (\div floors)
RoundHalfEven(a) ==
  LET f == a[1] \div a[2]
      r == a[1] - f * a[2]
  IN IF 2 * r < a[2] THEN f
     ELSE IF 2 * r > a[2] THEN f + 1
     ELSE IF f % 2 = 0 THEN f ELSE f + 1

\* the digits of f"{a:.kf}" as the integer round(a * 10^k), scale = 10^k
Fmt(a, scale) == RoundHalfEven(<< a[1] * scale, a[2] >>)

(***************************************************************************)
(* Band mapper and letter refiner                                          *)
(***************************************************************************)
Alphabet ==
  << "A","B","C","D","E","F","G","H","I","J","K","L","M",
     "N","O","P","Q","R","S","T","U","V","W","X","Y","Z" >>

OrdOf == [ c \in RangeOf(Alphabet) |-> IndexOf(Alphabet, c) ]

\* ord(c) - ord("A") + 1
Ord(c) == OrdOf[c]

map_to_band_strict(avg_sent_len) ==
  IF RLt(avg_sent_len, << 6, 1 >>) THEN << "A", "D" >>
  ELSE IF RLt(avg_sent_len, << 10, 1 >>) THEN << "E", "I" >>
  ELSE IF RLt(avg_sent_len, << 14, 1 >>) THEN << "J", "M" >>
  ELSE IF RLt(avg_sent_len, << 19, 1 >>) THEN << "N", "S" >>
  ELSE << "T", "Z" >>

map_to_band(avg_sent_len) ==
  IF RLe(avg_sent_len, << 6, 1 >>) THEN << "A", "D" >>
  ELSE IF RLe(avg_sent_len, << 10, 1 >>) THEN << "E", "I" >>
  ELSE IF RLe(avg_sent_len, << 14, 1 >>) THEN << "J", "M" >>
  ELSE IF RLe(avg_sent_len, << 19, 1 >>) THEN << "N", "S" >>
  ELSE << "T", "Z" >>

\* [chr(c) for c in range(ord(band_start), ord(band_end) + 1)]
BandLetters(band_start, band_end) == SubSeq(Alphabet, Ord(band_start), Ord(band_end))

\* the composite score of refine_letter
Score(feats) ==
  RAdd(RAdd(RMul(<< 8, 10 >>, RMin1(RMul(feats.long_word_ratio, << 5, 1 >>))),
            RMul(<< 6, 10 >>, RMin1(RMul(feats.ttr, << 2, 1 >>)))),
       RAdd(RMul(<< 7, 10 >>, RMin1(RMul(feats.commas_per_sent, << 1, 2 >>))),
            RMul(<< 5, 10 >>, RMin1(<< feats.connectives + feats.sub_conj, 10 >>))))

\* int(round(score * (len(letters) - 1)))
RawIndex(band_start, band_end, feats) ==
  RoundHalfEven(RMul(Score(feats), << Len(BandLetters(band_start, band_end)) - 1, 1 >>))

refine_letter_noclamp(band_start, band_end, feats) ==
  Alphabet[Min(26, Max(1, Ord(band_start) + RawIndex(band_start, band_end, feats)))]

refine_letter_floor(band_start, band_end, feats) ==
  LET letters == BandLetters(band_start, band_end)
      x   == RMul(Score(feats), << Len(letters) - 1, 1 >>)
      idx == x[1] \div x[2]
  IN letters[Max(0, Min(Len(letters) - 1, idx)) + 1]

refine_letter(band_start, band_end, feats) ==
  LET letters == BandLetters(band_start, band_end)
      idx     == RawIndex(band_start, band_end, feats)
  IN letters[Max(0, Min(Len(letters) - 1, idx)) + 1]

\* level_from_features: <<letter, band>>
level_from_features(feats) ==
  LET band == map_to_band(feats.avg_sent_len)
  IN << refine_letter(band[1], band[2], feats), band >>

(***************************************************************************)
(* Rubric table (a DataFrame): [columns, rows]; a column label is          *)
(* [str, s]: str is FALSE for a label that is not a string (a header cell  *)
(* holding a number comes back from read_excel as a number); a row is the  *)
(* sequence of its cells, every cell a string                              *)
(***************************************************************************)
Label(chars) == [ str |-> TRUE, s |-> chars ]

NumLabel == [ str |-> FALSE, s |-> << >> ]

NIVEL == Label(<< "N", "í", "v", "e", "l" >>)

FRASE == Label(<< "F", "r", "a", "s", "e", " ", "e", " ", "E", "s", "t", "r", "u", "t", "u", "r", "a" >>)

VOCAB == Label(<< "V", "o", "c", "a", "b", "u", "l", "á", "r", "i", "o" >>)

IMAGENS == Label(<< "I", "m", "a", "g", "e", "n", "s" >>)

\* sub in s
Contains(s, sub) ==
  \E k \in 0..(Len(s) - Len(sub)) : SubSeq(s, k + 1, k + Len(sub)) = sub

\* positions of the columns labelled name
ColsNamed(df, name) == { k \in 1..Len(df.columns) : df.columns[k] = name }

\* row.get(name, ""): to_dict keeps the last of several columns of one label
RowGet(df, row, name) ==
  LET ks == ColsNamed(df, name)
  IN IF ks = {} THEN << >>
     ELSE row[CHOOSE k \in ks : \A m \in ks : m <= k]

\* rubric_df["Nível"] is a table, not a column, when two columns carry the
\* label; a table has no .str and line 176 raises AttributeError
JustifyRaises(rubric_df) == Cardinality(ColsNamed(rubric_df, NIVEL)) > 1

\* rows r with str(r["Nível"]).upper() == level, in table order
MatchingRows(rubric_df, level) ==
  IF ColsNamed(rubric_df, NIVEL) = {} THEN << >>
  ELSE LET c == CHOOSE k \in ColsNamed(rubric_df, NIVEL) : TRUE
       IN SelectSeq(rubric_df.rows, LAMBDA r : Upper(r[c]) = << level >>)

(***************************************************************************)
(* Justifier: the justification is the sequence of its sentences, which    *)
(* the code joins with single spaces; a sentence is [s, n, q, l, a, b]     *)
(***************************************************************************)
Part(s, n, q, l, a, b) == [ s |-> s, n |-> n, q |-> q, l |-> l, a |-> a, b |-> b ]

Qualifier(avg) ==
  IF RLe(<< 15, 1 >>, avg) THEN "alta"
  ELSE IF RLe(avg, << 6, 1 >>) THEN "baixa"
  ELSE "moderada"

justify_ge(level, band, feats, rubric_df) ==
  LET rows == MatchingRows(rubric_df, level)
  IN << Part("complexidade frasal", Fmt(feats.avg_sent_len, 10), Qualifier(feats.avg_sent_len), "", << >>, << >>),
        IF RLe(<< 3, 10 >>, feats.commas_per_sent) \/ feats.connectives + feats.sub_conj >= 2
        THEN Part("oracoes compostas", 0, "", "", << >>, << >>)
        ELSE Part("frases simples", 0, "", "", << >>, << >>),
        IF RLe(<< 8, 100 >>, feats.long_word_ratio)
        THEN Part("palavras longas", 0, "", "", << >>, << >>)
        ELSE Part("palavras curtas", 0, "", "", << >>, << >>) >>
     \o (IF rows # << >>
         THEN << Part("alinhado a rubrica", 0, "", level,
                      RowGet(rubric_df, rows[1], FRASE), RowGet(rubric_df, rows[1], VOCAB)) >>
         ELSE << >>)

\* justify, for a table on which line 176 does not raise
justify(level, band, feats, rubric_df) ==
  LET rows == MatchingRows(rubric_df, level)
  IN << Part("complexidade frasal", Fmt(feats.avg_sent_len, 10), Qualifier(feats.avg_sent_len), "", << >>, << >>),
        IF RLt(<< 3, 10 >>, feats.commas_per_sent) \/ feats.connectives + feats.sub_conj >= 2
        THEN Part("oracoes compostas", 0, "", "", << >>, << >>)
        ELSE Part("frases simples", 0, "", "", << >>, << >>),
        IF RLe(<< 8, 100 >>, feats.long_word_ratio)
        THEN Part("palavras longas", 0, "", "", << >>, << >>)
        ELSE Part("palavras curtas", 0, "", "", << >>, << >>) >>
     \o (IF rows # << >>
         THEN << Part("alinhado a rubrica", 0, "", level,
                      RowGet(rubric_df, rows[1], FRASE), RowGet(rubric_df, rows[1], VOCAB)) >>
         ELSE << >>)

\* the evidence string: the .1f / .2f digits and the two counts
Evidence(feats) ==
  << Fmt(feats.avg_sent_len, 10), Fmt(feats.commas_per_sent, 100),
     Fmt(feats.long_word_ratio, 100), feats.connectives, feats.sub_conj >>

(***************************************************************************)
(* Rubric loading (lines 195-218).  An uploaded workbook is                *)
(* [readable, sheets]; a sheet is [name, columns, rows]                    *)
(***************************************************************************)
\* next((s for s in xl.sheet_names if "fountas" in s.lower()), xl.sheet_names[0])
SelectSheet(file) ==
  LET hits == { k \in 1..Len(file.sheets) :
                  Contains(Lower(file.sheets[k].name), << "f", "o", "u", "n", "t", "a", "s" >>) }
  IN IF hits = {} THEN file.sheets[1]
     ELSE file.sheets[CHOOSE k \in hits : \A m \in hits : k <= m]

\* the if/elif chain of lines 203-207 on one column label
Rename(col) ==
  LET lc == Lower(Strip(col.s))
  IN IF Contains(lc, << "n", "í", "v", "e", "l" >>) \/ Contains(lc, << "n", "i", "v", "e", "l" >>) THEN NIVEL
     ELSE IF Contains(lc, << "f", "r", "a", "s", "e" >>) \/ Contains(lc, << "e", "s", "t", "r", "u", "t", "u", "r", "a" >>) THEN FRASE
     ELSE IF Contains(lc, << "v", "o", "c", "a", "b" >>) THEN VOCAB
     ELSE IF Contains(lc, << "i", "m", "a", "g", "e", "m" >>) THEN IMAGENS
     ELSE col

Expected == << NIVEL, FRASE, VOCAB, IMAGENS >>

\* [c for c in expected if c not in rubrica_df.columns]
Missing(df) == SelectSeq(Expected, LAMBDA c : ColsNamed(df, c) = {})

\* the value of rubrica_df after lines 195-218.  rubrica_df is None at line
\* 195; pd.ExcelFile / read_excel raising leaves it None; line 200 assigns
\* the table as read; col.strip() raises on a label that is not a string and
\* the handler of line 217 leaves the table of line 200 in place
LoadRubric(file) ==
  IF file = None THEN None
  ELSE IF ~file.readable THEN None
  ELSE LET sheet == SelectSheet(file)
           raw   == [ columns |-> sheet.columns, rows |-> sheet.rows ]
       IN IF \E k \in 1..Len(raw.columns) : ~raw.columns[k].str
          THEN raw
          ELSE LET df == [ columns |-> [ k \in 1..Len(raw.columns) |-> Rename(raw.columns[k]) ],
                           rows    |-> raw.rows ]
               IN IF Missing(df) # << >> THEN None ELSE df

(***************************************************************************)
(* Text extraction.  An uploaded book is [name, ok, pages]: ok is FALSE    *)
(* when the reader raises on the file, pages are the texts of its pages    *)
(* (PDF) or of its documents (EPUB), "" for a page whose extraction fails  *)
(***************************************************************************)
RECURSIVE JoinFrom(_, _, _)
\* " ".join(parts)
JoinFrom(parts, k, acc) ==
  IF k > Len(parts) THEN acc
  ELSE JoinFrom(parts, k + 1, IF k = 1 THEN parts[k] ELSE acc \o << " " >> \o parts[k])

Join(parts) == JoinFrom(parts, 1, << >>)

RECURSIVE TotalLen(_, _)
TotalLen(parts, k) == IF k = 0 THEN 0 ELSE Len(parts[k]) + TotalLen(parts, k - 1)

RECURSIVE PdfPages(_, _, _)
\* the loop of lines 72-79: append, then stop once the total exceeds MAX_CHARS
PdfPages(pages, k, acc) ==
  IF k > Len(pages) THEN acc
  ELSE LET nxt == Append(acc, pages[k])
       IN IF TotalLen(nxt, Len(nxt)) > MAX_CHARS THEN nxt ELSE PdfPages(pages, k + 1, nxt)

RECURSIVE EpubPages(_, _, _)
\* the loop of lines 92-102: only a non-empty text is appended
EpubPages(pages, k, acc) ==
  IF k > Len(pages) THEN acc
  ELSE LET nxt == IF pages[k] # << >> THEN Append(acc, pages[k]) ELSE acc
       IN IF TotalLen(nxt, Len(nxt)) > MAX_CHARS THEN nxt ELSE EpubPages(pages, k + 1, nxt)

read_pdf(file) == IF ~file.ok THEN << >> ELSE safe_text(Join(PdfPages(file.pages, 1, << >>)))

\* soup.get_text(" ", strip=True) leaves each document's text stripped
read_epub(file) ==
  IF ~file.ok THEN << >>
  ELSE safe_text(Join(EpubPages([ k \in 1..Len(file.pages) |-> Strip(file.pages[k]) ], 1, << >>)))

EndsWith(s, suffix) ==
  Len(s) >= Len(suffix) /\ SubSeq(s, Len(s) - Len(suffix) + 1, Len(s)) = suffix

extract_text(uploaded_file) ==
  LET name == Lower(uploaded_file.name)
  IN IF EndsWith(name, << ".", "p", "d", "f" >>) THEN read_pdf(uploaded_file)
     ELSE IF EndsWith(name, << ".", "e", "p", "u", "b" >>) THEN read_epub(uploaded_file)
     ELSE << >>

\* re.sub(r"\.[^.]+$", "", name): the last dot and what follows it, when
\* something follows it
Base(name) ==
  LET dots == { k \in 1..Len(name) : name[k] = "." }
  IN IF dots = {} THEN name
     ELSE LET k == CHOOSE d \in dots : \A m \in dots : m <= d
          IN IF k < Len(name) THEN SubSeq(name, 1, k - 1) ELSE name

extract_isbn(name) ==
  LET base == Base(name)
      only == SelectSeq(base, LAMBDA c : IsDigit(c) \/ c \in {"X", "x"})
  IN IF only # << >> THEN only ELSE base

(***************************************************************************)
(* Inputs: the books and the rubric workbooks a user may upload            *)
(***************************************************************************)
BkShort ==
  [ name  |-> << "9", "7", "8", "8", "5", "3", "5", "9", "1", "4", "8", "4", "9", ".", "p", "d", "f" >>,
    ok    |-> TRUE,
    pages |-> << << "T", "h", "e", " ", "c", "a", "t", " ", "s", "a", "t", ".", " ", "I", "t", " ", "r", "a", "n", ",", " ", "s", "o", " ", "i", "t", " ", "h", "i", "d", "." >> >> ]

\* the same text as BkShort, in another container and under another name
BkShortEpub ==
  [ name  |-> << "l", "i", "v", "r", "o", ".", "E", "P", "U", "B" >>,
    ok    |-> TRUE,
    pages |-> << << " ", "T", "h", "e", " ", "c", "a", "t", " ", "s", "a", "t", "." >>, << >>, << "I", "t", " ", "r", "a", "n", ",", " ", "s", "o", " ", "i", "t", " ", "h", "i", "d", ".", "\n" >> >> ]

BkLong ==
  [ name  |-> << "9", "7", "8", "-", "8", "5", "-", "3", "5", "9", "-", "1", "4", "8", "4", "-", "9", ".", "p", "d", "f" >>,
    ok    |-> TRUE,
    pages |-> << << "a", " ", "b", " ", "c", " ", "d", " ", "e", " ", "f", " ", "g", " ", "h", " ", "i", " ", "j", " ", "k", " ", "l", " ", "m", " ", "n", " ", "o", " ", "p", " ", "q", " ", "r", " ", "s", " ", "t", "." >> >> ]

BkMid ==
  [ name  |-> << "m", "i", "d", ".", "p", "d", "f" >>,
    ok    |-> TRUE,
    pages |-> << << "w", "e", " ", "g", "o", " ", "f", "a", "r", " ", "b", "e", "c", "a", "u", "s", "e", " ", "a", "l", "t", "h", "o", "u", "g", "h", " ", "i", "t", " ", "i", "s", " ", "s", "o", " ", "w", "e", " ", "d", "o", " ", "i", "t", ",", " ", "o", "k", "." >> >> ]

\* only punctuation
BkPunct ==
  [ name  |-> << "p", ".", "p", "d", "f" >>,
    ok    |-> TRUE,
    pages |-> << << ".", ".", ".", "!", "!", "!" >> >> ]

\* a scanned book: no page yields text
BkScan ==
  [ name  |-> << "s", "c", "a", "n", ".", "p", "d", "f" >>,
    ok    |-> TRUE,
    pages |-> << << >>, << >> >> ]

\* the reader raises on the file
BkBroken ==
  [ name  |-> << "x", ".", "e", "p", "u", "b" >>,
    ok    |-> FALSE,
    pages |-> << >> ]

BkTxt ==
  [ name  |-> << "n", "o", "t", "e", "s", ".", "t", "x", "t" >>,
    ok    |-> TRUE,
    pages |-> << << "a", " ", "b", "." >> >> ]

\* more text than MAX_CHARS
BkBig ==
  [ name  |-> << "b", "i", "g", ".", "p", "d", "f" >>,
    ok    |-> TRUE,
    pages |-> << << "a", "a", "a", "a", "a", "a", "a", "a", "a", "a", "a", "a", "a", "a", "a", "a", "a", "a", "a", "a", "a", "a", "a", "a", "a", "a", "a", "a", "a", "a" >>, << "b", "b", "b", "b", "b", "b", "b", "b", "b", "b", "b", "b", "b", "b", "b", "b", "b", "b", "b", "b", "b", "b", "b", "b", "b", "b", "b", "b", "b", "b" >>, << "c", "." >> >> ]

BookPool == { BkShort, BkShortEpub, BkLong, BkMid, BkPunct, BkScan, BkBroken, BkTxt, BkBig }

\* the level column is found by its lower-cased name, on the sheet whose
\* name holds "fountas"
RbOk ==
  [ readable |-> TRUE,
    sheets   |-> << [ name    |-> << "C", "a", "p", "a" >>,
          columns |-> << Label(<< "O", "b", "s" >>) >>,
          rows    |-> << >> ],
        [ name    |-> << "A", "-", "Z", " ", "F", "o", "u", "n", "t", "a", "s", "&", "P", "i", "n", "n", "e", "l" >>,
          columns |-> << Label(<< " ", "N", "I", "V", "E", "L", " " >>), Label(<< "F", "r", "a", "s", "e" >>), Label(<< "V", "o", "c", "a", "b", "u", "l", "á", "r", "i", "o" >>), Label(<< "I", "m", "a", "g", "e", "n", "s" >>) >>,
          rows    |-> << << << "c" >>, << "f", "-", "c" >>, << "v", "-", "c" >>, << "i", "-", "c" >> >>, << << "X" >>, << "f", "-", "x" >>, << "v", "-", "x" >>, << "i", "-", "x" >> >> >> ] >> ]

\* no column for the images
RbMissing ==
  [ readable |-> TRUE,
    sheets   |-> << [ name    |-> << "P", "l", "a", "n", "1" >>,
          columns |-> << Label(<< "N", "í", "v", "e", "l" >>), Label(<< "F", "r", "a", "s", "e", " ", "e", " ", "E", "s", "t", "r", "u", "t", "u", "r", "a" >>), Label(<< "V", "o", "c", "a", "b", "u", "l", "á", "r", "i", "o" >>) >>,
          rows    |-> << << << "C" >>, << "f", "-", "c" >>, << "v", "-", "c" >> >> >> ] >> ]

\* not a workbook: pd.ExcelFile raises
RbUnreadable ==
  [ readable |-> FALSE,
    sheets   |-> << >> ]

\* the fourth header cell holds a number
RbNumHeader ==
  [ readable |-> TRUE,
    sheets   |-> << [ name    |-> << "P", "l", "a", "n", "1" >>,
          columns |-> << Label(<< "N", "í", "v", "e", "l" >>), Label(<< "F", "r", "a", "s", "e", " ", "e", " ", "E", "s", "t", "r", "u", "t", "u", "r", "a" >>), Label(<< "V", "o", "c", "a", "b", "u", "l", "á", "r", "i", "o" >>), NumLabel >>,
          rows    |-> << << << "C" >>, << "f", "-", "c" >>, << "v", "-", "c" >>, << "i", "-", "c" >> >> >> ] >> ]

\* two columns whose name holds "nível"
RbDupLevel ==
  [ readable |-> TRUE,
    sheets   |-> << [ name    |-> << "P", "l", "a", "n", "1" >>,
          columns |-> << Label(<< "N", "í", "v", "e", "l" >>), Label(<< "F", "r", "a", "s", "e" >>), Label(<< "V", "o", "c", "a", "b", "u", "l", "á", "r", "i", "o" >>), Label(<< "I", "m", "a", "g", "e", "n", "s" >>), Label(<< "N", "í", "v", "e", "l", " ", "s", "u", "g", "e", "r", "i", "d", "o" >>) >>,
          rows    |-> << << << "C" >>, << "f", "-", "c" >>, << "v", "-", "c" >>, << "i", "-", "c" >>, << "D" >> >> >> ] >> ]

RubricPool == { RbOk, RbMissing, RbUnreadable, RbNumHeader, RbDupLevel }

\* the most books uploaded at once
MaxBooks == 2

(***************************************************************************)
(* The app.  Streamlit runs the script from top to bottom on every user    *)
(* action; the widgets keep the uploaded files between runs, the script's  *)
(* names (rubrica_df, results, text, feats, ...) do not.  pc is "idle"     *)
(* after a run without the button, "loop" inside the loop of line 236,     *)
(* "done" after line 274 and "crashed" when a run ended in an exception.   *)
(***************************************************************************)
VARIABLES rubrica_file, rubrica_df, books, run, pc, i, results,
          text, feats, level, band, just,
          t_text, t_pc, t_feats,
          l_feats, l_pc, l_band, l_level, l_just

appVars == << rubrica_file, rubrica_df, books, run, pc, i, results,
              text, feats, level, band, just >>

textVars == << t_text, t_pc, t_feats >>

levelVars == << l_feats, l_pc, l_band, l_level, l_just >>

vars == << appVars, textVars, levelVars >>

Sentence(s) == << Part(s, 0, "", "", << >>, << >>) >>

Result(isbn, arquivo, nivel, justificativa, evidencias) ==
  [ ISBN |-> isbn, Arquivo |-> arquivo, Nivel |-> nivel,
    Justificativa |-> justificativa, Evidencias |-> evidencias ]

\* the script's names before the loop binds them
LocalsUnset ==
  /\ text' = << >>
  /\ feats' = None
  /\ level' = ""
  /\ band' = << >>
  /\ just' = << >>

AppInit ==
  /\ rubrica_file = None
  /\ rubrica_df = None
  /\ books = << >>
  /\ run = FALSE
  /\ pc = "idle"
  /\ i = 0
  /\ results = << >>
  /\ text = << >>
  /\ feats = None
  /\ level = ""
  /\ band = << >>
  /\ just = << >>

\* a run of the script in which the button was not pressed
Rerun(file, bs) ==
  /\ rubrica_file' = file
  /\ rubrica_df' = LoadRubric(file)
  /\ books' = bs
  /\ run' = FALSE
  /\ pc' = "idle"
  /\ i' = 0
  /\ results' = << >>
  /\ LocalsUnset

\* the user uploads a rubric workbook (line 194)
UploadRubric(file) ==
  /\ pc # "loop"
  /\ Rerun(file, books)

\* the user removes the rubric workbook
RemoveRubric ==
  /\ pc # "loop"
  /\ rubrica_file # None
  /\ Rerun(None, books)

\* the user adds a book to the uploader (line 221)
AddBook(b) ==
  /\ pc # "loop"
  /\ Len(books) < MaxBooks
  /\ Rerun(rubrica_file, Append(books, b))

\* the user removes a book from the uploader
RemoveBook(k) ==
  /\ pc # "loop"
  /\ k \in 1..Len(books)
  /\ Rerun(rubrica_file, SubSeq(books, 1, k - 1) \o SubSeq(books, k + 1, Len(books)))

\* line 231: the button is disabled when rubrica_df is None or not books
Disabled == rubrica_df = None \/ books = << >>

\* the user presses the button: the script runs with run = True, reloads the
\* rubric and enters the loop under the guard of line 233
ClickRun ==
  /\ pc # "loop"
  /\ ~Disabled
  /\ rubrica_df' = LoadRubric(rubrica_file)
  /\ run' = TRUE
  /\ pc' = IF rubrica_df' # None /\ books # << >> THEN "loop" ELSE "idle"
  /\ i' = 0
  /\ results' = << >>
  /\ LocalsUnset
  /\ UNCHANGED << rubrica_file, books >>

\* lines 237-243: no text was extracted
ExtractionFailure ==
  /\ pc = "loop" /\ i < Len(books)
  /\ LET b == books[i + 1]
     IN /\ text' = extract_text(b)
        /\ text' = << >>
        /\ results' = Append(results, Result(extract_isbn(b.name), b.name, "?",
                                             Sentence("Falha ao extrair texto"), << >>))
  /\ i' = i + 1
  /\ UNCHANGED << rubrica_file, rubrica_df, books, run, pc, feats, level, band, just >>

\* lines 237-248: text, but no token or no sentence
InsufficientText ==
  /\ pc = "loop" /\ i < Len(books)
  /\ LET b == books[i + 1]
     IN /\ text' = extract_text(b)
        /\ text' # << >>
        /\ feats' = compute_features(text')
        /\ feats' = None
        /\ results' = Append(results, Result(extract_isbn(b.name), b.name, "?",
                                             Sentence("Texto insuficiente para analise"), << >>))
  /\ i' = i + 1
  /\ UNCHANGED << rubrica_file, rubrica_df, books, run, pc, level, band, just >>

Classify_stale ==
  /\ pc = "loop" /\ i < Len(books)
  /\ ~JustifyRaises(rubrica_df)
  /\ LET b == books[i + 1]
     IN /\ text' = extract_text(b)
        /\ text' # << >>
        /\ feats' = compute_features(text')
        /\ feats' # None
        /\ level' = IF level = "" THEN level_from_features(feats')[1] ELSE level
        /\ band' = level_from_features(feats')[2]
        /\ just' = justify(level', band', feats', rubrica_df)
        /\ results' = Append(results, Result(extract_isbn(b.name), b.name, level',
                                             just', Evidence(feats')))
  /\ i' = i + 1
  /\ UNCHANGED << rubrica_file, rubrica_df, books, run, pc >>

\* lines 237-261: the book is levelled and justified
Classify ==
  /\ pc = "loop" /\ i < Len(books)
  /\ ~JustifyRaises(rubrica_df)
  /\ LET b == books[i + 1]
     IN /\ text' = extract_text(b)
        /\ text' # << >>
        /\ feats' = compute_features(text')
        /\ feats' # None
        /\ level' = level_from_features(feats')[1]
        /\ band' = level_from_features(feats')[2]
        /\ just' = justify(level', band', feats', rubrica_df)
        /\ results' = Append(results, Result(extract_isbn(b.name), b.name, level',
                                             just', Evidence(feats')))
  /\ i' = i + 1
  /\ UNCHANGED << rubrica_file, rubrica_df, books, run, pc >>

\* lines 237-250: justify raises at line 176; nothing catches it, the run
\* ends and no result is shown
JustifyCrash ==
  /\ pc = "loop" /\ i < Len(books)
  /\ JustifyRaises(rubrica_df)
  /\ LET b == books[i + 1]
     IN /\ text' = extract_text(b)
        /\ text' # << >>
        /\ feats' = compute_features(text')
        /\ feats' # None
        /\ level' = level_from_features(feats')[1]
        /\ band' = level_from_features(feats')[2]
  /\ pc' = "crashed"
  /\ UNCHANGED << rubrica_file, rubrica_df, books, run, i, results, just >>

\* lines 263-274: the loop is over, the results are shown
Finish ==
  /\ pc = "loop" /\ i = Len(books)
  /\ pc' = "done"
  /\ UNCHANGED << rubrica_file, rubrica_df, books, run, i, results,
                  text, feats, level, band, just >>

TextIdle ==
  /\ t_text = << >>
  /\ t_pc = "off"
  /\ t_feats = None

LevelIdle ==
  /\ l_feats = None
  /\ l_pc = "off"
  /\ l_band = << >>
  /\ l_level = ""
  /\ l_just = << >>

Init == AppInit /\ TextIdle /\ LevelIdle

Next ==
  \/ \E file \in RubricPool : UploadRubric(file) /\ UNCHANGED << textVars, levelVars >>
  \/ RemoveRubric /\ UNCHANGED << textVars, levelVars >>
  \/ \E b \in BookPool : AddBook(b) /\ UNCHANGED << textVars, levelVars >>
  \/ \E k \in 1..MaxBooks : RemoveBook(k) /\ UNCHANGED << textVars, levelVars >>
  \/ ClickRun /\ UNCHANGED << textVars, levelVars >>
  \/ ExtractionFailure /\ UNCHANGED << textVars, levelVars >>
  \/ InsufficientText /\ UNCHANGED << textVars, levelVars >>
  \/ Classify /\ UNCHANGED << textVars, levelVars >>
  \/ JustifyCrash /\ UNCHANGED << textVars, levelVars >>
  \/ Finish /\ UNCHANGED << textVars, levelVars >>

Spec == Init /\ [][Next]_vars

(***************************************************************************)
(* Claims about the app (specification Spec)                               *)
(***************************************************************************)
Letters == RangeOf(Alphabet)

\* C1: every batch runs to completion with exactly one result per book, in
\* the order of the books: no run ends in an exception, inside the loop the
\* results are those of the books processed so far, and after it those of
\* all the books
C1_BatchCompletes ==
  /\ pc # "crashed"
  /\ pc = "loop" => Len(results) = i
  /\ pc = "done" => Len(results) = Len(books)
  /\ \A k \in 1..Len(results) : results[k].Arquivo = books[k].name

\* what C4 says a result is: a function of the extracted text and of the
\* rubric table, and of nothing else
Outcome(txt, rubric) ==
  IF txt = << >> THEN << "?", Sentence("Falha ao extrair texto"), << >> >>
  ELSE IF compute_features(txt) = None
       THEN << "?", Sentence("Texto insuficiente para analise"), << >> >>
       ELSE LET f == compute_features(txt)
                l == level_from_features(f)
            IN << l[1], justify(l[1], l[2], f, rubric), Evidence(f) >>

Core(r) == << r.Nivel, r.Justificativa, r.Evidencias >>

C4_SameTextSameResult ==
  /\ \A k \in 1..Len(results) :
       Core(results[k]) = Outcome(extract_text(books[k]), rubrica_df)
  /\ \A k1, k2 \in 1..Len(results) :
       extract_text(books[k1]) = extract_text(books[k2])
         => Core(results[k1]) = Core(results[k2])

\* C4: the level, justification and evidence recorded for a book depend on
\* its extracted text and on the rubric only (two books with the same text
\* get the same three values, whatever their position, their names and the
\* other books of the batch), and no step of the loop changes the rubric
C4_Independent ==
  /\ []C4_SameTextSameResult
  /\ [][pc = "loop" => rubrica_df' = rubrica_df /\ rubrica_file' = rubrica_file]_vars

\* two books with one text and different names, both levelled, in a
\* finished batch
C4_Witness ==
  /\ pc = "done"
  /\ \E k1, k2 \in 1..Len(results) :
       /\ k1 # k2
       /\ books[k1].name # books[k2].name
       /\ extract_text(books[k1]) = extract_text(books[k2])
       /\ results[k1].Nivel \in Letters

\* C5: an empty extracted text is recorded as an extraction failure, a text
\* without a token or without a sentence as insufficient text, both with the
\* level "?" and no evidence; a result whose level is a letter has evidence
C5_Sentinels ==
  \A k \in 1..Len(results) :
    LET txt == extract_text(books[k])
        r   == results[k]
    IN /\ r.Nivel \in Letters \cup {"?"}
       /\ txt = << >> =>
            /\ r.Nivel = "?"
            /\ r.Justificativa = Sentence("Falha ao extrair texto")
            /\ r.Evidencias = << >>
       /\ txt # << >> /\ (tokenize(txt) = << >> \/ split_sentences(txt) = << >>) =>
            /\ r.Nivel = "?"
            /\ r.Justificativa = Sentence("Texto insuficiente para analise")
            /\ r.Evidencias = << >>
       /\ r.Nivel \in Letters => r.Evidencias # << >>

\* a finished batch of a book without text and a book of punctuation only
C5_Witness ==
  /\ pc = "done"
  /\ \E k1, k2 \in 1..Len(results) :
       /\ extract_text(books[k1]) = << >>
       /\ results[k1].Nivel = "?"
       /\ extract_text(books[k2]) = << ".", ".", ".", "!", "!", "!" >>
       /\ results[k2].Nivel = "?"

\* the uploaded workbook gives no usable rubric: none was uploaded, it could
\* not be read, the loading raised, or a required column is absent
RubricUnusable ==
  \/ rubrica_file = None
  \/ ~rubrica_file.readable
  \/ LET sheet == SelectSheet(rubrica_file)
     IN \/ \E k \in 1..Len(sheet.columns) : ~sheet.columns[k].str
        \/ \E c \in RangeOf(Expected) :
             \A k \in 1..Len(sheet.columns) :
               sheet.columns[k].str => Rename(sheet.columns[k]) # c

\* C6: while no rubric with all required columns is loaded, no book is
\* classified: the loop is not entered and no result is recorded
C6_NoRubricNoResults ==
  RubricUnusable => pc \notin {"loop", "done", "crashed"} /\ results = << >>

(***************************************************************************)
(* The text functions on their own (specification SpecText): safe_text     *)
(* and compute_features applied to every text of a bounded set             *)
(***************************************************************************)
\* the longest enumerated text
MaxTextLen == 3

TextAlphabet == { "a", "B", ".", ",", " ", NL }

RECURSIVE Texts(_)
Texts(n) ==
  IF n = 0 THEN { << >> }
  ELSE LET shorter == Texts(n - 1)
       IN shorter \cup { Append(t, c) : t \in { u \in shorter : Len(u) = n - 1 }, c \in TextAlphabet }

\* a word that ends two characters before the cap, so that the enumerated
\* texts that follow it straddle MAX_CHARS
LongWord == [ k \in 1..(MAX_CHARS - 2) |-> "a" ]

TextInputs == Texts(MaxTextLen) \cup { LongWord \o t : t \in Texts(MaxTextLen) }

TextInit ==
  /\ t_text \in TextInputs
  /\ t_pc = "raw"
  /\ t_feats = None

\* s = safe_text(s)
Normalize ==
  /\ t_pc = "raw"
  /\ t_text' = safe_text(t_text)
  /\ t_pc' = "normalized"
  /\ UNCHANGED t_feats

\* feats = compute_features(text)
Featurize ==
  /\ t_pc \in {"raw", "normalized"}
  /\ t_feats' = compute_features(t_text)
  /\ t_pc' = "features"
  /\ UNCHANGED t_text

InitText == AppInit /\ TextInit /\ LevelIdle

NextText ==
  \/ Normalize /\ UNCHANGED << appVars, levelVars >>
  \/ Featurize /\ UNCHANGED << appVars, levelVars >>

SpecText == InitText /\ [][NextText]_vars

\* C7: the text safe_text returns has at most MAX_CHARS characters, no
\* whitespace at either end and no two whitespace characters in a row
C7_Normalized ==
  t_pc = "normalized" =>
    /\ Len(t_text) <= MAX_CHARS
    /\ t_text # << >> => ~IsSpace(t_text[1]) /\ ~IsSpace(t_text[Len(t_text)])
    /\ \A k \in 1..(Len(t_text) - 1) : ~(IsSpace(t_text[k]) /\ IsSpace(t_text[k + 1]))

SentenceTokenCounts(txt) ==
  LET sents == split_sentences(txt)
  IN [ k \in 1..Len(sents) |-> Len(tokenize(sents[k])) ]

\* C10: the token counts of the sentences of a text add up to the token
\* count of the text, a text with a token has a sentence, and a feature
\* vector has avg_sent_len * num_sents = num_tokens
C10_TokensPartitioned ==
  LET counts == SentenceTokenCounts(t_text)
  IN /\ SumSeq(counts, Len(counts)) = Len(tokenize(t_text))
     /\ tokenize(t_text) # << >> => split_sentences(t_text) # << >>
     /\ t_pc = "features" /\ t_feats # None =>
          /\ t_feats.num_sents = Len(counts)
          /\ t_feats.num_tokens = Len(tokenize(t_text))
          /\ t_feats.avg_sent_len[1] * t_feats.num_sents
               = t_feats.num_tokens * t_feats.avg_sent_len[2]

\* a feature vector of a text of two sentences of one token each
C10_Witness ==
  /\ t_pc = "features"
  /\ t_feats # None
  /\ t_feats.num_sents = 2
  /\ t_feats.num_tokens = 2
  /\ Len(t_text) > MaxTextLen

(***************************************************************************)
(* The levelling functions on their own (specification SpecLevel):         *)
(* map_to_band, refine_letter and justify applied to every feature vector  *)
(* of a bounded set, values outside the range of a real text included      *)
(***************************************************************************)
\* avg_sent_len ranges over the halves 0, 1/2, ..., MaxAvgHalves/2, and 25
MaxAvgHalves == 41

AvgInputs == { << k, 2 >> : k \in 0..MaxAvgHalves } \cup { << 25, 1 >> }

LwrInputs == { << -1, 2 >>, << 0, 1 >>, << 2, 25 >>, << 3, 20 >>, << 3, 1 >> }

TtrInputs == { << 1, 2 >>, << 3, 5 >> }

CpsInputs == { << 0, 1 >>, << 1, 10 >>, << 3, 10 >>, << 1, 1 >>, << 7, 1 >> }

ConnInputs == { 0, 3 }

SubInputs == { 0, 1, 2 }

FeatureInputs ==
  [ avg_sent_len : AvgInputs, ttr : TtrInputs, long_word_ratio : LwrInputs,
    connectives : ConnInputs, sub_conj : SubInputs, commas_per_sent : CpsInputs ]

\* the tables rubrica_df can hold when the loop runs
RubricTables == { LoadRubric(f) : f \in RubricPool } \ { None }

LevelInit ==
  /\ l_feats \in FeatureInputs
  /\ l_pc = "feats"
  /\ l_band = << >>
  /\ l_level = ""
  /\ l_just = << >>

\* band = map_to_band(feats["avg_sent_len"])
MapBand ==
  /\ l_pc = "feats"
  /\ l_band' = map_to_band(l_feats.avg_sent_len)
  /\ l_pc' = "band"
  /\ UNCHANGED << l_feats, l_level, l_just >>

\* letter = refine_letter(band[0], band[1], feats)
Refine ==
  /\ l_pc = "band"
  /\ l_level' = refine_letter(l_band[1], l_band[2], l_feats)
  /\ l_pc' = "level"
  /\ UNCHANGED << l_feats, l_band, l_just >>

\* just = justify(level, band, feats, rubrica_df)
Justify(rubric) ==
  /\ l_pc = "level"
  /\ ~JustifyRaises(rubric)
  /\ l_just' = justify(l_level, l_band, l_feats, rubric)
  /\ rubrica_df' = rubric
  /\ l_pc' = "justified"
  /\ UNCHANGED << l_feats, l_band, l_level >>

\* justify raises on a table with two level columns
JustifyFails(rubric) ==
  /\ l_pc = "level"
  /\ JustifyRaises(rubric)
  /\ rubrica_df' = rubric
  /\ l_pc' = "raised"
  /\ UNCHANGED << l_feats, l_band, l_level, l_just >>

InitLevel == AppInit /\ TextIdle /\ LevelInit

NextLevel ==
  \/ MapBand /\ UNCHANGED << appVars, textVars >>
  \/ Refine /\ UNCHANGED << appVars, textVars >>
  \/ \E rubric \in RubricTables :
       Justify(rubric) /\ UNCHANGED << rubrica_file, books, run, pc, i, results,
                                       text, feats, level, band, just, textVars >>
  \/ \E rubric \in RubricTables :
       JustifyFails(rubric) /\ UNCHANGED << rubrica_file, books, run, pc, i, results,
                                            text, feats, level, band, just, textVars >>

SpecLevel == InitLevel /\ [][NextLevel]_vars

(***************************************************************************)
(* Claims about the levelling functions (specification SpecLevel)          *)
(***************************************************************************)
BandAssigned == l_pc \in {"band", "level", "justified", "raised"}

LevelAssigned == l_pc \in {"level", "justified", "raised"}

\* the bands map_to_band returns on the inputs
BandsReturned == { map_to_band(a) : a \in AvgInputs }

InBand(c, b) == Ord(b[1]) <= Ord(c) /\ Ord(c) <= Ord(b[2])

\* C2: the letter refine_letter returns lies between the start and the end
\* of the band it was given, for every feature vector, and the level of
\* level_from_features is a letter A..Z inside the band of avg_sent_len
C2_LetterInBand ==
  LevelAssigned =>
    /\ l_level \in Letters
    /\ InBand(l_level, l_band)
    /\ LET lb == level_from_features(l_feats)
       IN lb[1] \in Letters /\ InBand(lb[1], lb[2]) /\ lb[2] = l_band

\* a long-word ratio of 3 (out of range), an index beyond the band, and the
\* band's last letter returned
C2_Witness ==
  /\ l_pc = "level"
  /\ l_feats.long_word_ratio = << 3, 1 >>
  /\ RawIndex(l_band[1], l_band[2], l_feats) > Ord(l_band[2]) - Ord(l_band[1])
  /\ l_level = l_band[2]

\* five bands, every letter in exactly one, each band but the last followed
\* by the band that starts at the next letter
BandsPartitionAlphabet ==
  /\ Cardinality(BandsReturned) = 5
  /\ \A c \in Letters : Cardinality({ b \in BandsReturned : InBand(c, b) }) = 1
  /\ \A b \in BandsReturned :
       b[2] = "Z" \/ \E b2 \in BandsReturned : Ord(b2[1]) = Ord(b[2]) + 1

\* C3: map_to_band returns A-D up to 6, E-I up to 10, J-M up to 14, N-S up
\* to 19 and T-Z above, each threshold included in the lower band, and the
\* five bands are contiguous and hold every letter A..Z exactly once
C3_BandTable ==
  /\ BandAssigned =>
       LET n == l_feats.avg_sent_len[1]
           d == l_feats.avg_sent_len[2]
       IN /\ n <= 6 * d => l_band = << "A", "D" >>
          /\ 6 * d < n /\ n <= 10 * d => l_band = << "E", "I" >>
          /\ 10 * d < n /\ n <= 14 * d => l_band = << "J", "M" >>
          /\ 14 * d < n /\ n <= 19 * d => l_band = << "N", "S" >>
          /\ 19 * d < n => l_band = << "T", "Z" >>
  /\ BandsPartitionAlphabet

\* avg_sent_len exactly 6, mapped to A-D
C3_Witness ==
  /\ l_pc = "band"
  /\ l_feats.avg_sent_len = << 12, 2 >>
  /\ l_band = << "A", "D" >>

\* the table has a row whose level is lvl, upper or lower case
HasRowFor(df, lvl) ==
  \E c \in 1..Len(df.columns), r \in 1..Len(df.rows) :
    df.columns[c] = NIVEL /\ Lower(df.rows[r][c]) = Lower(<< lvl >>)

\* C8: the justification is, in this order, the sentence on sentence
\* complexity (alta from 15, baixa up to 6, moderada between), the sentence
\* on compound or simple sentences (compound when commas_per_sent > 0.3 or
\* connectives + sub_conj >= 2), the sentence on long or short words (long
\* when long_word_ratio >= 0.08), and a fourth sentence on the rubric
\* exactly when the rubric has a row for the level, whatever its case
C8_JustificationShape ==
  l_pc = "justified" =>
    LET f == l_feats
        j == l_just
    IN /\ Len(j) \in {3, 4}
       /\ j[1].s = "complexidade frasal"
       /\ j[1].q = IF f.avg_sent_len[1] >= 15 * f.avg_sent_len[2] THEN "alta"
                   ELSE IF f.avg_sent_len[1] <= 6 * f.avg_sent_len[2] THEN "baixa"
                   ELSE "moderada"
       /\ j[2].s = IF \/ 10 * f.commas_per_sent[1] > 3 * f.commas_per_sent[2]
                      \/ f.connectives + f.sub_conj >= 2
                   THEN "oracoes compostas" ELSE "frases simples"
       /\ j[3].s = IF 100 * f.long_word_ratio[1] >= 8 * f.long_word_ratio[2]
                   THEN "palavras longas" ELSE "palavras curtas"
       /\ Len(j) = 4 <=> HasRowFor(rubrica_df, l_level)
       /\ Len(j) = 4 => j[4].s = "alinhado a rubrica" /\ j[4].l = l_level

\* a rubric with rows, none of them for the level: three sentences, with
\* commas_per_sent exactly 0.3 and fewer than two connectives
C8_Witness ==
  /\ l_pc = "justified"
  /\ rubrica_df.rows # << >>
  /\ ~HasRowFor(rubrica_df, l_level)
  /\ Len(l_just) = 3
  /\ l_feats.commas_per_sent = << 3, 10 >>
  /\ l_feats.connectives + l_feats.sub_conj < 2
  /\ l_just[2].s = "frases simples"

Scenario1 ==
  [ avg_sent_len |-> << 10, 2 >>, ttr |-> << 1, 2 >>, long_word_ratio |-> << 0, 1 >>,
    connectives |-> 0, sub_conj |-> 0, commas_per_sent |-> << 1, 10 >> ]

Scenario2 ==
  [ avg_sent_len |-> << 25, 1 >>, ttr |-> << 3, 5 >>, long_word_ratio |-> << 3, 20 >>,
    connectives |-> 3, sub_conj |-> 2, commas_per_sent |-> << 1, 1 >> ]

\* 100 * score as the fraction <<P, Q>>, from the formula of the claim
ClaimScore100(f) ==
  LET a  == f.long_word_ratio[1]
      b  == f.long_word_ratio[2]
      t1 == f.ttr[1]
      t2 == f.ttr[2]
      c1 == f.commas_per_sent[1]
      c2 == f.commas_per_sent[2]
      k  == f.connectives + f.sub_conj
  IN << (IF 5 * a >= b THEN 80 * b ELSE 400 * a) * t2 * c2
          + (IF 2 * t1 >= t2 THEN 60 * t2 ELSE 120 * t1) * b * c2
          + (IF c1 >= 2 * c2 THEN 70 * c2 ELSE 35 * c1) * b * t2
          + (IF k >= 10 THEN 50 ELSE 5 * k) * b * t2 * c2,
        b * t2 * c2 >>

\* r = round(p / q): nearest integer, the even one of two equally near
IsRound(r, p, q) ==
  /\ 2 * Abs(p - r * q) <= q
  /\ 2 * Abs(p - r * q) = q => r % 2 = 0

\* C9: the letter is letters[index], index = round(score * (bandSize - 1))
\* clamped into [0, bandSize - 1], score the weighted sum of the claim; the
\* first scenario gives band A-D and C, the second band T-Z, index 11
\* before and 6 after the clamp, and Z
C9_RefineFormula ==
  LevelAssigned =>
    LET size == Ord(l_band[2]) - Ord(l_band[1]) + 1
        sc   == ClaimScore100(l_feats)
        lo   == (sc[1] * (size - 1)) \div (100 * sc[2])
    IN /\ \E r \in {lo, lo + 1} :
            /\ IsRound(r, sc[1] * (size - 1), 100 * sc[2])
            /\ l_level = Alphabet[Ord(l_band[1]) + Max(0, Min(size - 1, r))]
       /\ l_feats = Scenario1 => l_band = << "A", "D" >> /\ l_level = "C"
       /\ l_feats = Scenario2 =>
            /\ l_band = << "T", "Z" >>
            /\ IsRound(11, sc[1] * (size - 1), 100 * sc[2])
            /\ Max(0, Min(size - 1, 11)) = 6
            /\ l_level = "Z"

\* the second scenario, levelled
C9_Witness ==
  /\ l_pc = "level"
  /\ l_feats = Scenario2
  /\ l_level = "Z"

=============================================================================
